---- MODULE Spec2Model ----
(***************************************************************************)
(* Model of src/main.go: the /weather handler, i.e. rateLimiterMiddleware  *)
(* wrapped around redisMiddleware.  Every inbound request runs on its own  *)
(* goroutine (net/http), so each request is a process whose steps are the  *)
(* accesses to shared state: the ipLimiterMap lookup (line 55), the map    *)
(* insert (line 58), limiter.Allow() (line 60), the Redis GET (line 74),   *)
(* the upstream HTTP call (line 81) and the Redis SET (line 91).  Code     *)
(* between two such accesses touches only locals and is folded into the    *)
(* preceding step.                                                         *)
(*                                                                         *)
(* Time is counted in ticks, TicksPerSecond ticks to a second.  Token      *)
(* counts are kept multiplied by TicksPerSecond so that the fractional     *)
(* refill of rate.Limiter stays an integer.                                *)
(***************************************************************************)
EXTENDS Integers, Sequences, FiniteSets, TLC

\* ---------------------------------------------------------------- bounds
TicksPerSecond == 2      \* clock granularity
MaxShortTicks == 1       \* single ticks the clock may advance in a row
MaxLongWaits == 1        \* waits of a whole TTL
MaxInFlight == 2         \* goroutines serving requests at the same time
MaxRequests == 3         \* requests offered in the mixed workload
ExtraRequests == 1       \* requests beyond Burst of the bursting client
OtherRequests == 1       \* requests of the other client in the burst workload

\* ------------------------------------------------------ program constants
Rate == 2                \* rate.Limit(2): tokens per second
Burst == 10              \* burst capacity
TTL == 300               \* 5*time.Minute, in seconds
StatusOK == 200
StatusTooManyRequests == 429
StatusInternalServerError == 500

DefaultCountry == "maltepe"

\* -------------------------------------------------------- derived values
TTLTicks == TTL * TicksPerSecond
OneToken == TicksPerSecond            \* one token, in scaled units
FullBucket == Burst * TicksPerSecond  \* burst tokens, in scaled units
Slots == 1..MaxInFlight
None == "none"

Min(a, b) == IF a < b THEN a ELSE b

\* ------------------------------------------------------------ the inputs
\* r.RemoteAddr: <<host, port>> when it has the host:port form, else junk:
\* an address without a port, or one with too many colons.
AllAddrs == {<<"A", "1">>, <<"junk">>, <<"fe80", "", "1">>}
JunkAddrs == {<<"junk">>, <<"fe80", "", "1">>}
AllCountries == {"", DefaultCountry, "izmir"}
MixedAddrs == {<<"A", "1">>}
MixedCountries == {"", DefaultCountry}

\* net.SplitHostPort fails on an address without a port.
SplitHostPortOK(addr) == Len(addr) = 2

\* func getIP(r) string
getIP(addr) == IF SplitHostPortOK(addr) THEN addr[1] ELSE ""

ClientIDs == {getIP(a) : a \in AllAddrs}

VARIABLES
    now,            \* wall clock, in ticks
    crashed,        \* the runtime aborted the process (fatal error)
    offered,        \* the workload and the environment, fixed by Init
    remaining,      \* requests the workload has still to issue, from its
                    \* main addresses and from its other addresses
    apiKey,         \* os.Getenv("API_KEY"), fixed for the process
    ipLimiterMap,   \* client id -> limiter index, 0 when absent
    limiters,       \* the heap of *rate.Limiter objects ever constructed
    cache,          \* the Redis store: key -> None or [val, expireAt]
    req,            \* per goroutine: the request and its locals
    hist            \* history, read by the properties only

vars == <<now, crashed, offered, remaining, apiKey, ipLimiterMap, limiters,
          cache, req, hist>>

\* ------------------------------------------------- golang.org/x/time/rate
\* rate.NewLimiter(limit, burst): a full bucket.
NewLimiter(t) == [tokens |-> FullBucket, last |-> t]

\* Mutant of Advance: the refill is not capped at burst.
AdvanceNoCap(lim, t) == lim.tokens + (t - lim.last) * Rate

\* Limiter.advance: the tokens the bucket holds at time t, capped at burst.
Advance(lim, t) == Min(lim.tokens + (t - lim.last) * Rate, FullBucket)

\* Limiter.Allow() at time t: is one token available?
AllowOK(lim, t) == Advance(lim, t) >= OneToken

\* The limiter after Allow() at time t: a denied call consumes nothing.
AfterAllow(lim, t) ==
    IF AllowOK(lim, t)
    THEN [tokens |-> Advance(lim, t) - OneToken, last |-> t]
    ELSE lim

\* ------------------------------------------------------------- the store
NoEntry == [present |-> FALSE, val |-> <<>>, expireAt |-> 0]

\* A Redis entry is served only until its expiry time.
Valid(entry, t) == entry.present /\ t < entry.expireAt

\* redisDB.Get(ctx, key).Result(): the value, or an error, which is redis.Nil
\* for a key the store does not hold and a transport error or timeout when
\* the store did not answer.
StoreGet(store, key, t, answered) ==
    IF ~answered THEN [err |-> "transport", val |-> <<>>]
    ELSE IF Valid(store[key], t) THEN [err |-> None, val |-> store[key].val]
    ELSE [err |-> "nil", val |-> <<>>]

\* Mutant of StoreSet: the expiration reaches the store in the wrong unit and
\* rounds to nothing, so the entry is expired as soon as it is written.
StoreSetWrongUnit(store, key, value, t, expiration) ==
    [store EXCEPT ![key] = [present |-> TRUE, val |-> value, expireAt |-> t]]

\* Mutant of StoreSet: SET with NX, a key that holds a valid entry keeps it.
StoreSetKeepsValid(store, key, value, t, expiration) ==
    IF Valid(store[key], t) THEN store
    ELSE [store EXCEPT ![key] = [present |-> TRUE, val |-> value,
                                expireAt |-> t + expiration]]

\* redisDB.Set(ctx, key, value, expiration)
StoreSet(store, key, value, t, expiration) ==
    [store EXCEPT ![key] = [present |-> TRUE, val |-> value,
                           expireAt |-> t + expiration]]

\* The key redisMiddleware reads and writes: the raw query parameter.
CacheKey(country) == country

\* ---------------------------------------------------------- the upstream
\* getWeatherValue: an empty country becomes the default one in the URL.
Place(country) == IF country = "" THEN DefaultCountry ELSE country

\* What the provider may answer to one GET: no answer in time, a non-200
\* status, or 200 with a body, which may carry fields Weather does not
\* declare or may not be JSON at all.
UpstreamReplies(place, versions, faults) ==
    {r \in {[kind |-> "neterr", code |-> 0, place |-> place, ver |-> 0,
              extra |-> FALSE],
     [kind |-> "status", code |-> StatusInternalServerError, place |-> place,
      ver |-> 0, extra |-> FALSE],
     [kind |-> "garbage", code |-> StatusOK, place |-> place, ver |-> 0,
      extra |-> FALSE]} : faults}
    \cup {[kind |-> "json", code |-> StatusOK, place |-> place, ver |-> v,
           extra |-> e] : v \in versions, e \in BOOLEAN}

\* json.Unmarshal(body, &weather): keeps the declared fields only.
Unmarshal(reply) == [place |-> reply.place, ver |-> reply.ver]

\* getWeatherValue succeeded: client.Do returned, status 200, body parsed.
FetchOK(reply) == reply.kind = "json"

\* json.Marshal(weather)
Marshal(weather) == <<"weather", weather.place, weather.ver>>

\* An error response written by http.Error or the JSON encoder.
ErrorBody(msg) == <<"error", msg>>

\* Mutant of MapKey: one limiter for all clients.
MapKeyShared(ip) == ""

\* The key of ipLimiterMap a request uses: its client identifier.
MapKey(ip) == ip

\* ------------------------------------------------------------- requests
IdleReq ==
    [pc |-> "idle", addr |-> <<>>, ip |-> "", country |-> "", limiter |-> 0,
     allowed |-> FALSE, getErr |-> None, data |-> <<>>, status |-> 0,
     body |-> <<>>, allows |-> 0, reads |-> 0, fetches |-> 0, writes |-> 0,
     \* history, read by the properties only: what the store held for the
     \* key at the GET, whether this process had filled the key (or a key of
     \* the same place) within the TTL, and how the provider answered
     entryAtGet |-> None, freshAtGet |-> FALSE, aliasFreshAtGet |-> FALSE,
     upstream |-> None,
     \* and whether, at the GET, a fetch for the key had failed with nothing
     \* cached and no fetched payload had been stored for the key since
     afterFailure |-> FALSE]

Free(s) == req[s].pc \in {"idle", "done"}

Finish(r, status, body) ==
    [r EXCEPT !.pc = "done", !.status = status, !.body = body]

InitHist ==
    [owner |-> <<>>,
     burstStart |-> [c \in ClientIDs |-> -1],
     burstAllowed |-> [c \in ClientIDs |-> 0],
     burstDenied |-> [c \in ClientIDs |-> FALSE],
     deniedAt |-> [c \in ClientIDs |-> -1],
     allowedAfterDenial |-> [c \in ClientIDs |-> FALSE],
     lastFill |-> [k \in AllCountries |-> -1],
     failedMiss |-> [k \in AllCountries |-> FALSE],
     fillBody |-> [k \in AllCountries |-> <<>>]]

EmptyStore == [k \in AllCountries |-> NoEntry]

\* A store that a previous run of the process filled just before this one.
WarmStore ==
    StoreSet(EmptyStore, DefaultCountry,
             Marshal([place |-> DefaultCountry, ver |-> 1]), 0, TTLTicks)

InitCommon ==
    /\ now = 0
    /\ crashed = FALSE
    /\ ipLimiterMap = [c \in ClientIDs |-> 0]
    /\ limiters = <<>>
    /\ req = [s \in Slots |-> IdleReq]
    /\ hist = InitHist

\* The mixed workload: few requests of one client, both spellings of the
\* default key, a store and a provider that may fail, waits of a whole TTL.
Init ==
    /\ InitCommon
    /\ offered = [addrs |-> MixedAddrs, others |-> {},
                  countries |-> MixedCountries,
                  versions |-> {1, 2}, faults |-> TRUE,
                  waits |-> {TTLTicks}]
    /\ remaining = [main |-> MaxRequests, other |-> 0]
    /\ apiKey \in {"", "secret"}
    /\ cache \in {EmptyStore, WarmStore}

\* The burst workload: more than Burst requests of one client and a request
\* of another, a store and a provider that always answer, waits of a tick.
InitBurst ==
    /\ InitCommon
    /\ offered = [addrs |-> {<<"A", "1">>}, others |-> {<<"junk">>},
                  countries |-> {"izmir"}, versions |-> {1},
                  faults |-> FALSE, waits |-> {1}]
    /\ remaining = [main |-> Burst + ExtraRequests, other |-> OtherRequests]
    /\ apiKey = "secret"
    /\ cache = EmptyStore

\* The junk workload: more than Burst requests from origins that do not
\* parse, a store and a provider that always answer, waits of a tick.
InitJunk ==
    /\ InitCommon
    /\ offered = [addrs |-> JunkAddrs, others |-> {},
                  countries |-> {"izmir"}, versions |-> {1},
                  faults |-> FALSE, waits |-> {1}]
    /\ remaining = [main |-> Burst + ExtraRequests, other |-> 0]
    /\ apiKey = "secret"
    /\ cache = EmptyStore

\* ------------------------------------------------------------- actions
\* net/http starts the handler on a goroutine; line 53: ip := getIP(r).
Accept(s) ==
    /\ ~crashed
    /\ Free(s)
    /\ \A t \in Slots : t < s => ~Free(t)
    /\ \E addr \in offered.addrs \cup offered.others,
          country \in offered.countries :
         LET class == IF addr \in offered.addrs THEN "main" ELSE "other"
         IN /\ remaining[class] > 0
            /\ req' = [req EXCEPT ![s] =
                          [IdleReq EXCEPT !.pc = "lookup", !.addr = addr,
                                          !.ip = getIP(addr),
                                          !.country = country]]
            /\ remaining' = [remaining EXCEPT ![class] = @ - 1]
    /\ UNCHANGED <<now, crashed, offered, apiKey, ipLimiterMap, limiters,
                   cache, hist>>

\* Lines 55-57: limiter, exists := ipLimiterMap[ip]; when absent a new
\* limiter is constructed (not yet stored).
Lookup(s) ==
    /\ ~crashed
    /\ req[s].pc = "lookup"
    /\ IF ipLimiterMap[MapKey(req[s].ip)] /= 0
       THEN /\ req' = [req EXCEPT ![s].limiter =
                                      ipLimiterMap[MapKey(req[s].ip)],
                                  ![s].pc = "allow"]
            /\ UNCHANGED <<limiters, hist>>
       ELSE /\ limiters' = Append(limiters, NewLimiter(now))
            /\ hist' = [hist EXCEPT !.owner = Append(@, req[s].ip)]
            /\ req' = [req EXCEPT ![s].limiter = Len(limiters) + 1,
                                  ![s].pc = "insert"]
    /\ UNCHANGED <<now, crashed, offered, remaining, apiKey, ipLimiterMap,
                   cache>>

\* Line 58: ipLimiterMap[ip] = limiter.
Insert(s) ==
    /\ ~crashed
    /\ req[s].pc = "insert"
    /\ ipLimiterMap' = [ipLimiterMap EXCEPT
                            ![MapKey(req[s].ip)] = req[s].limiter]
    /\ req' = [req EXCEPT ![s].pc = "allow"]
    /\ UNCHANGED <<now, crashed, offered, remaining, apiKey, limiters, cache,
                   hist>>

\* Lines 55 and 58 run without a lock.  When a map write runs at the same
\* time as another access of the map, the Go runtime may detect it and abort
\* the process ("fatal error: concurrent map writes" / "concurrent map read
\* and map write"); otherwise the two accesses take effect in some order,
\* which Lookup and Insert give.
MapRaceFatal ==
    /\ ~crashed
    /\ \E s, t \in Slots :
         /\ s /= t
         /\ req[s].pc = "insert"
         /\ req[t].pc \in {"lookup", "insert"}
    /\ crashed' = TRUE
    /\ UNCHANGED <<now, offered, remaining, apiKey, ipLimiterMap, limiters,
                   cache, req, hist>>

\* The request's history of admission decisions, for the properties.
NoteDecision(h, c, ok, t) ==
    LET start == IF h.burstStart[c] = -1 THEN t ELSE h.burstStart[c]
        inBurst == start = t
    IN [h EXCEPT !.burstStart[c] = start,
                 !.burstAllowed[c] = IF inBurst /\ ok THEN @ + 1 ELSE @,
                 !.burstDenied[c] = IF inBurst /\ ~ok THEN TRUE ELSE @,
                 !.deniedAt[c] = IF ok THEN -1 ELSE t,
                 !.allowedAfterDenial[c] =
                     @ \/ (ok /\ \E c2 \in ClientIDs \ {c} :
                                    h.burstDenied[c2])]

\* Mutant of AfterDecision: the return after the 429 is missing, so the next
\* handler runs for a denied request too.
AfterDecisionNoReturn(r, ok) ==
    IF ok
    THEN [r EXCEPT !.allowed = TRUE, !.pc = "get"]
    ELSE [r EXCEPT !.pc = "get", !.status = StatusTooManyRequests,
                   !.body = ErrorBody("To many requests")]

\* The middleware's reaction to limiter.Allow() (lines 60-66): a denied
\* request is answered 429 and the next handler is not called.
AfterDecision(r, ok) ==
    IF ok
    THEN [r EXCEPT !.allowed = TRUE, !.pc = "get"]
    ELSE Finish(r, StatusTooManyRequests, ErrorBody("To many requests"))

\* Lines 60-66.
Allow(s) ==
    /\ ~crashed
    /\ req[s].pc = "allow"
    /\ LET l == req[s].limiter
           ok == AllowOK(limiters[l], now)
       IN /\ limiters' = [limiters EXCEPT ![l] = AfterAllow(@, now)]
          /\ req' = [req EXCEPT ![s] =
                        AfterDecision([@ EXCEPT !.allows = @ + 1], ok)]
          /\ hist' = NoteDecision(hist, req[s].ip, ok, now)
    /\ UNCHANGED <<now, crashed, offered, remaining, apiKey, ipLimiterMap,
                   cache>>

\* Mutant of AfterGet: the value found is ignored and fetched again.
AfterGetIgnoresHit(r, res, key) ==
    LET r1 == [r EXCEPT !.reads = @ + 1, !.getErr = res.err]
    IN IF key = ""
       THEN Finish(r1, StatusInternalServerError,
                   ErrorBody("Api key could not found"))
       ELSE [r1 EXCEPT !.pc = "fetch"]

\* Mutant of AfterGet: redis.Nil is not taken for an error, so a missing or
\* expired key is answered with the empty value.
AfterGetNilIsHit(r, res, key) ==
    LET r1 == [r EXCEPT !.reads = @ + 1, !.getErr = res.err]
    IN IF res.err \in {None, "nil"} THEN Finish(r1, StatusOK, res.val)
       ELSE IF key = ""
            THEN Finish(r1, StatusInternalServerError,
                        ErrorBody("Api key could not found"))
            ELSE [r1 EXCEPT !.pc = "fetch"]

\* Mutant of AfterGet: the API key is looked up before the result of the GET
\* is examined, so a hit needs the key too.
AfterGetChecksKeyFirst(r, res, key) ==
    LET r1 == [r EXCEPT !.reads = @ + 1, !.getErr = res.err]
    IN IF key = ""
       THEN Finish(r1, StatusInternalServerError,
                   ErrorBody("Api key could not found"))
       ELSE IF res.err = None THEN Finish(r1, StatusOK, res.val)
            ELSE [r1 EXCEPT !.pc = "fetch"]

\* Mutant of AfterGet: only redis.Nil is taken for a miss, another error of
\* the GET ends the request.
AfterGetFailsOnError(r, res, key) ==
    LET r1 == [r EXCEPT !.reads = @ + 1, !.getErr = res.err]
    IN IF res.err = None THEN Finish(r1, StatusOK, res.val)
       ELSE IF res.err /= "nil"
            THEN Finish(r1, StatusInternalServerError,
                        ErrorBody("Error getting value from Redis"))
            ELSE IF key = ""
                 THEN Finish(r1, StatusInternalServerError,
                             ErrorBody("Api key could not found"))
                 ELSE [r1 EXCEPT !.pc = "fetch"]

\* Lines 75-80 and 98-101: what the handler does with the result of the GET.
\* Any error is taken for a miss; a miss without an API key ends the request.
AfterGet(r, res, key) ==
    LET r1 == [r EXCEPT !.reads = @ + 1, !.getErr = res.err]
    IN IF res.err = None THEN Finish(r1, StatusOK, res.val)
       ELSE IF key = ""
            THEN Finish(r1, StatusInternalServerError,
                        ErrorBody("Api key could not found"))
            ELSE [r1 EXCEPT !.pc = "fetch"]

\* This process filled key k less than a TTL ago.
Fresh(h, k, t) == h.lastFill[k] >= 0 /\ t < h.lastFill[k] + TTLTicks

\* The request's observations at the GET, for the properties.
NoteGet(r, store, h, t) ==
    LET e == store[r.country]
    IN [r EXCEPT !.entryAtGet = IF ~e.present THEN "absent"
                                ELSE IF t < e.expireAt THEN "valid"
                                ELSE "expired",
                 !.freshAtGet = Fresh(h, r.country, t),
                 !.aliasFreshAtGet =
                     \E k \in AllCountries :
                         Place(k) = Place(r.country) /\ Fresh(h, k, t),
                 !.afterFailure = h.failedMiss[r.country]]

\* Lines 73-80, 98-101: val, err := getRedisValue(redisDB, country).
GetRedis(s) ==
    /\ ~crashed
    /\ req[s].pc = "get"
    /\ \E answered \in {TRUE, ~offered.faults} :
         req' = [req EXCEPT ![s] =
                    AfterGet(NoteGet(@, cache, hist, now),
                             StoreGet(cache, CacheKey(req[s].country), now,
                                      answered), apiKey)]
    /\ UNCHANGED <<now, crashed, offered, remaining, apiKey, ipLimiterMap,
                   limiters, cache, hist>>

\* Mutant of AfterFetch: a failed fetch is remembered, its error is stored
\* under the key like a payload.
AfterFetchCachesFailure(r, reply) ==
    LET r1 == [r EXCEPT !.fetches = @ + 1]
    IN IF FetchOK(reply)
       THEN [r1 EXCEPT !.data = Marshal(Unmarshal(reply)), !.pc = "set"]
       ELSE [r1 EXCEPT !.data = ErrorBody("getWeatherValue Error"),
                       !.pc = "set"]

\* Mutant of AfterFetch: the error of getWeatherValue is not checked, and the
\* zero Weather is marshalled and stored.
AfterFetchIgnoresError(r, reply) ==
    [r EXCEPT !.fetches = @ + 1, !.data = Marshal(Unmarshal(reply)),
              !.pc = "set"]

\* Lines 81-90: a failed fetch ends the request; a fetched value is
\* marshalled for the store and the response.
AfterFetch(r, reply) ==
    LET r1 == [r EXCEPT !.fetches = @ + 1]
    IN IF FetchOK(reply)
       THEN [r1 EXCEPT !.data = Marshal(Unmarshal(reply)), !.pc = "set"]
       ELSE Finish(r1, StatusInternalServerError,
                   ErrorBody("getWeatherValue Error"))

\* The history of failed fetches, for the properties: a fetch for the key
\* failed while the store held no valid entry for it.
NoteFetch(h, r, reply, store, t) ==
    IF ~FetchOK(reply) /\ ~Valid(store[CacheKey(r.country)], t)
    THEN [h EXCEPT !.failedMiss[r.country] = TRUE]
    ELSE h

\* Lines 81-90: weather, err := getWeatherValue(country, key).
Fetch(s) ==
    /\ ~crashed
    /\ req[s].pc = "fetch"
    /\ \E reply \in UpstreamReplies(Place(req[s].country), offered.versions,
                                offered.faults) :
         /\ req' = [req EXCEPT ![s] =
                       AfterFetch([@ EXCEPT !.upstream = reply.kind], reply)]
         /\ hist' = NoteFetch(hist, req[s], reply, cache, now)
    /\ UNCHANGED <<now, crashed, offered, remaining, apiKey, ipLimiterMap,
                   limiters, cache>>

\* Mutant of AfterSet: a refused SET is tried again.
AfterSetRetries(r, replied) ==
    LET r1 == [r EXCEPT !.writes = @ + 1]
    IN IF replied THEN Finish(r1, StatusOK, r.data) ELSE r1

\* Lines 92-97: an error of the SET ends the request with a 500; otherwise
\* the marshalled value is the response.
AfterSet(r, replied) ==
    LET r1 == [r EXCEPT !.writes = @ + 1]
    IN IF replied
       THEN Finish(r1, StatusOK, r.data)
       ELSE Finish(r1, StatusInternalServerError,
                   ErrorBody("Error setting value in Redis"))

\* The history of fills, for the properties: when the store acknowledged a
\* SET of the key, that a fetched payload was stored for it, and the response
\* body of the request whose SET wrote the key's entry.
NoteSet(h, r, applied, replied, t) ==
    [h EXCEPT !.lastFill[CacheKey(r.country)] = IF replied THEN t ELSE @,
              !.failedMiss[CacheKey(r.country)] =
                  IF applied /\ r.upstream = "json" THEN FALSE ELSE @,
              !.fillBody[CacheKey(r.country)] =
                  IF applied THEN AfterSet(r, replied).body ELSE @]

\* Lines 91-97: err = setRedisValue(redisDB, country, data, 5*time.Minute).
\* The store may apply the SET and answer, not apply it, or apply it and
\* lose the answer (the 3 s deadline passes): the last two are errors.
SetRedis(s) ==
    /\ ~crashed
    /\ req[s].pc = "set"
    /\ \E applied, replied \in {TRUE, ~offered.faults} :
         /\ replied => applied
         /\ cache' = IF applied
                     THEN StoreSet(cache, CacheKey(req[s].country),
                                   req[s].data, now, TTLTicks)
                     ELSE cache
         /\ req' = [req EXCEPT ![s] = AfterSet(@, replied)]
         /\ hist' = NoteSet(hist, req[s], applied, replied, now)
    /\ UNCHANGED <<now, crashed, offered, remaining, apiKey, ipLimiterMap,
                   limiters>>

\* Time passes: by one tick, or by a whole TTL.  No request is in flight for
\* a whole TTL: the GET, the upstream call and the SET carry deadlines of
\* 3 s, 2 s and 3 s.
Wait(d) ==
    /\ ~crashed
    /\ IF d < TTLTicks
       THEN (now % TTLTicks) + d <= MaxShortTicks
       ELSE /\ now \div TTLTicks < MaxLongWaits
            /\ \A s \in Slots : Free(s)
    /\ now' = now + d
    /\ UNCHANGED <<crashed, offered, remaining, apiKey, ipLimiterMap, limiters,
                   cache, req, hist>>

Next ==
    \/ \E s \in Slots : Accept(s)
    \/ \E s \in Slots : Lookup(s)
    \/ \E s \in Slots : Insert(s)
    \/ MapRaceFatal
    \/ \E s \in Slots : Allow(s)
    \/ \E s \in Slots : GetRedis(s)
    \/ \E s \in Slots : Fetch(s)
    \/ \E s \in Slots : SetRedis(s)
    \/ \E d \in offered.waits : Wait(d)

Spec == Init /\ [][Next]_vars

SpecBurst == InitBurst /\ [][Next]_vars

SpecJunk == InitJunk /\ [][Next]_vars

\* The scheduling the handlers can rely on: the Go scheduler runs every
\* runnable goroutine, and the GET, the upstream call and the SET return
\* within their deadlines of 3 s, 2 s and 3 s, so no step of a request that
\* stays possible is put off forever.  Nothing obliges a client to send a
\* request, time to be observed, or the runtime to detect a race.
Fairness ==
    \A s \in Slots :
        /\ WF_vars(Lookup(s)) /\ WF_vars(Insert(s)) /\ WF_vars(Allow(s))
        /\ WF_vars(GetRedis(s)) /\ WF_vars(Fetch(s)) /\ WF_vars(SetRedis(s))

SpecFair == Init /\ [][Next]_vars /\ Fairness

\* ------------------------------------------------------------ properties
Done(s) == req[s].pc = "done"

\* Goroutine s takes the step at program point p.
Steps(s, p) == req[s].pc = p /\ req'[s].pc /= p

\* The limiters constructed for client c.
LimitersOf(c) == {i \in 1..Len(limiters) : hist.owner[i] = c}

\* C1: with no time passing since a client's first request, at most Burst of
\* its requests are allowed, and a request is denied only once Burst of them
\* were allowed: requests 1..Burst pass and request Burst+1 is denied.
C1_BurstThenDenied ==
    \A c \in ClientIDs :
        /\ hist.burstAllowed[c] <= Burst
        /\ hist.burstDenied[c] => hist.burstAllowed[c] = Burst

\* C1, second half: a request that calls Allow() at least 1/Rate seconds
\* after the client's last denial is allowed.
C1_AllowedAfterRefill ==
    [][\A s \in Slots :
         (/\ Steps(s, "allow")
          /\ hist.deniedAt[req[s].ip] >= 0
          /\ (now - hist.deniedAt[req[s].ip]) * Rate >= TicksPerSecond)
         => req'[s].allowed]_vars

\* C2: a request touches the store or the provider only after its Allow()
\* returned true; a denied request ends with 429 and no such operation.
C2_DeniedDoesNoWork ==
    \A s \in Slots :
        /\ (req[s].pc \in {"get", "fetch", "set"} \/ req[s].reads > 0
            \/ req[s].fetches > 0 \/ req[s].writes > 0) => req[s].allowed
        /\ req[s].status = StatusTooManyRequests =>
              /\ Done(s) /\ ~req[s].allowed
              /\ req[s].reads = 0 /\ req[s].fetches = 0 /\ req[s].writes = 0

C2_Witness ==
    \E s \in Slots :
        Done(s) /\ req[s].status = StatusTooManyRequests /\ ~req[s].allowed

\* C3: at most one limiter is ever constructed for a client identifier, and
\* every request of the client draws on the limiter the map holds for it.
C3_OneLimiterPerClient ==
    /\ \A c \in ClientIDs : Cardinality(LimitersOf(c)) <= 1
    /\ \A s \in Slots :
         req[s].pc \in {"allow", "get", "fetch", "set", "done"} =>
             req[s].limiter = ipLimiterMap[MapKey(req[s].ip)]

\* C4: a request whose upstream fetch succeeded answers 200 with the fetched
\* payload, whatever the SET returned.
C4_SetFailureStillServes ==
    \A s \in Slots :
        (Done(s) /\ req[s].upstream = "json") =>
            req[s].status = StatusOK /\ req[s].body = req[s].data

\* C5: the empty key and the default key name one cache entry: a request
\* whose GET is answered while this process filled either spelling of its
\* place within the TTL is a hit, without an upstream fetch.
C5_EmptyKeySharesDefaultEntry ==
    \A s \in Slots :
        (req[s].reads > 0 /\ req[s].aliasFreshAtGet
         /\ req[s].getErr /= "transport") =>
            /\ Done(s) /\ req[s].status = StatusOK
            /\ req[s].fetches = 0 /\ req[s].writes = 0

\* C6: a GET that finds a valid entry ends the request in that step with the
\* entry's payload; the request fetches nothing and writes nothing.
C6_HitServesCachedPayload ==
    [][\A s \in Slots :
         (/\ Steps(s, "get")
          /\ cache[req[s].country].present
          /\ now < cache[req[s].country].expireAt
          /\ req'[s].getErr /= "transport")
         => /\ req'[s].pc = "done"
            /\ req'[s].status = StatusOK
            /\ req'[s].body = cache[req[s].country].val
            /\ req'[s].fetches = 0 /\ req'[s].writes = 0
            /\ cache' = cache]_vars

C6_Witness ==
    \E s \in Slots :
        /\ Done(s) /\ req[s].entryAtGet = "valid" /\ req[s].getErr = None
        /\ req[s].status = StatusOK /\ req[s].fetches = 0

\* C7: a request for a key that an earlier request of this process filled
\* less than a TTL ago, its GET answered, is a cache hit: it fetches nothing,
\* so the two resolves make one upstream fetch, that of the fill.
C7_SecondResolveHits ==
    \A s \in Slots :
        (req[s].reads > 0 /\ req[s].freshAtGet
         /\ req[s].getErr /= "transport") =>
            /\ Done(s) /\ req[s].status = StatusOK /\ req[s].getErr = None
            /\ req[s].fetches = 0 /\ req[s].writes = 0

C7_Witness ==
    \E s, t \in Slots :
        /\ s /= t
        /\ Done(t) /\ req[t].fetches = 1 /\ req[t].writes = 1
        /\ req[t].status = StatusOK /\ req[t].country = req[s].country
        /\ Done(s) /\ req[s].freshAtGet /\ req[s].getErr = None
        /\ req[s].fetches = 0 /\ req[s].body = req[t].body

\* C8: a request whose upstream fetch failed (no answer, non-200 status,
\* unparsable body) ends with 500 and never writes the store; the step in
\* which the fetch fails leaves the store as it was.
C8_FailedFetchCachesNothing ==
    [][/\ \A s \in Slots :
            req'[s].upstream \in {"neterr", "status", "garbage"} =>
                /\ req'[s].pc = "done"
                /\ req'[s].status = StatusInternalServerError
                /\ req'[s].writes = 0
       /\ (\E s \in Slots :
               Steps(s, "fetch")
               /\ req'[s].upstream \in {"neterr", "status", "garbage"})
          => cache' = cache]_vars

C8_Witness ==
    \E s \in Slots :
        /\ Done(s) /\ req[s].upstream \in {"neterr", "status", "garbage"}
        /\ req[s].status = StatusInternalServerError /\ req[s].writes = 0

\* C9: no limiter serves two client identifiers, and a step of a request
\* changes only limiters of the request's own client: what one client
\* consumes never changes the tokens another client's decisions rest on.
C9_ClientsShareNoState ==
    [][/\ \A c \in ClientIDs :
            ipLimiterMap'[c] /= 0 => hist'.owner[ipLimiterMap'[c]] = c
       /\ \A s \in Slots :
            req'[s].limiter /= 0 => hist'.owner[req'[s].limiter] = req'[s].ip
       /\ \A i \in 1..Len(limiters) :
            limiters'[i] /= limiters[i] =>
                \E s \in Slots :
                    Steps(s, "allow") /\ req[s].ip = hist.owner[i]]_vars

\* Client A was denied in its burst and the other client was allowed after.
C9_Witness ==
    /\ hist.burstDenied["A"]
    /\ hist.allowedAfterDenial[""]
    /\ \E s \in Slots : Done(s) /\ req[s].ip = "" /\ req[s].allowed

\* The key expired at the request's GET, and the GET was answered.
SawExpired(s) == req[s].entryAtGet = "expired" /\ req[s].getErr = "nil"

\* C10 as stated: a request that finds its key expired fetches from the
\* provider and writes the store again.
C10_ExpiredAlwaysRefilled ==
    \A s \in Slots :
        (Done(s) /\ SawExpired(s)) =>
            /\ req[s].fetches = 1
            /\ req[s].writes = 1 /\ req[s].status = StatusOK

\* C10 as amended: a request that finds its key expired never answers with
\* the expired entry; with an API key configured it fetches from the
\* provider; when the fetch succeeds it writes the store, and when the store
\* accepts the SET it answers with the fetched payload.
C10_ExpiredRefetched ==
    \A s \in Slots :
        (Done(s) /\ SawExpired(s)) =>
            /\ req[s].status = StatusOK => req[s].fetches = 1
            /\ apiKey /= "" => req[s].fetches = 1
            /\ req[s].upstream = "json" => req[s].writes = 1
            /\ req[s].status = StatusOK =>
                  req[s].writes = 1 /\ req[s].body = req[s].data

C10_Witness ==
    \E s \in Slots :
        /\ Done(s) /\ SawExpired(s) /\ req[s].status = StatusOK
        /\ req[s].fetches = 1 /\ req[s].writes = 1
        /\ Valid(cache[req[s].country], now)
        /\ cache[req[s].country].val = req[s].body

\* C11: a failed fetch is not remembered.  Once a fetch for a key has failed
\* with nothing cached and no fetched payload has been stored since, the
\* GET of an admitted request for the key is no hit and the request goes on
\* to the provider; when the provider answers with a payload the request
\* goes on to the SET; and unless the store refuses the SET the request
\* answers 200 with the payload and the key holds it for the TTL.
C11_FailedFetchNotRemembered ==
    [][\A s \in Slots :
         LET k == CacheKey(req[s].country)
         IN /\ (Steps(s, "get") /\ hist.failedMiss[k]) =>
                   /\ req'[s].getErr /= None
                   /\ req'[s].pc = "fetch"
            /\ (Steps(s, "fetch") /\ req[s].afterFailure
                /\ req'[s].upstream = "json") =>
                   /\ req'[s].pc = "set"
                   /\ req'[s].fetches = 1
                   /\ req'[s].data[1] = "weather"
            /\ (Steps(s, "set") /\ req[s].afterFailure
                /\ req'[s].body /= ErrorBody("Error setting value in Redis"))
                => /\ req'[s].status = StatusOK
                   /\ req'[s].body = req[s].data
                   /\ req'[s].writes = 1
                   /\ Valid(cache'[k], now)
                   /\ cache'[k].val = req[s].data]_vars

\* A request whose GET came after a failed fetch for its key fetched the
\* payload, answered with it and left it in the store.
C11_Witness ==
    \E s \in Slots :
        /\ Done(s) /\ req[s].afterFailure /\ req[s].allowed
        /\ req[s].upstream = "json" /\ req[s].status = StatusOK
        /\ req[s].fetches = 1 /\ req[s].writes = 1
        /\ Valid(cache[req[s].country], now)
        /\ cache[req[s].country].val = req[s].body

\* C12: a request calls Allow() once, before anything else it does, and
\* never again; it reads the store at most once, fetches at most once and
\* writes the store at most once; it fetches only after its read missed, and
\* writes only after its read missed and its fetch succeeded.
C12_OneCallOfEach ==
    \A s \in Slots :
        /\ req[s].allows = IF req[s].pc \in {"get", "fetch", "set", "done"}
                           THEN 1 ELSE 0
        /\ req[s].reads <= 1 /\ req[s].fetches <= 1 /\ req[s].writes <= 1
        /\ (req[s].pc \in {"fetch", "set"} \/ req[s].fetches > 0) =>
              req[s].reads = 1 /\ req[s].getErr /= None
        /\ (req[s].pc = "set" \/ req[s].writes > 0) =>
              req[s].fetches = 1 /\ req[s].upstream = "json"

C12_Witness ==
    \E s \in Slots :
        /\ Done(s) /\ req[s].allows = 1 /\ req[s].reads = 1
        /\ req[s].getErr /= None /\ req[s].fetches = 1
        /\ req[s].writes = 1 /\ req[s].status = StatusOK

\* Request t is in flight for the key of request s and has missed the store.
MissInFlight(s, t) ==
    /\ s /= t
    /\ req[t].country = req[s].country
    /\ req[t].pc \in {"fetch", "set"}

\* C13: there is no single-flight.  A request that misses while another
\* request for the same key is between its miss and its SET goes to the
\* provider itself, and a SET the store acknowledges replaces whatever the
\* key held by the request's own payload, with a full TTL.
C13_NoSingleFlight ==
    [][\A s \in Slots :
         LET k == CacheKey(req[s].country)
         IN /\ (/\ Steps(s, "get") /\ req'[s].getErr /= None /\ apiKey /= ""
                /\ \E t \in Slots : MissInFlight(s, t))
                => req'[s].pc = "fetch"
            /\ (Steps(s, "fetch") /\ \E t \in Slots : MissInFlight(s, t))
                => req'[s].fetches = 1 /\ req'[s].upstream /= None
            /\ (Steps(s, "set") /\ req'[s].status = StatusOK)
                => cache'[k] = [present |-> TRUE, val |-> req[s].data,
                                expireAt |-> now + TTLTicks]]_vars

\* Two requests for one key both found the key absent, so each read before
\* either wrote; each fetched and each wrote, and the key holds the payload
\* of one of them, which is not the payload the other one stored.
C13_Witness ==
    \E s, t \in Slots :
        /\ s /= t /\ req[s].country = req[t].country
        /\ \A u \in {s, t} :
              /\ Done(u) /\ req[u].allowed
              /\ req[u].entryAtGet = "absent" /\ req[u].getErr = "nil"
              /\ req[u].fetches = 1 /\ req[u].writes = 1
              /\ req[u].status = StatusOK
        /\ req[s].body /= req[t].body
        /\ cache[req[t].country].val = req[t].body

\* C14: every request the server has accepted eventually reaches its
\* terminal outcome (429, a hit, a fill or a failure).
C14_EveryRequestTerminates ==
    \A s \in Slots : (~Free(s)) ~> Done(s)

\* C14, unless the runtime aborts the process: every accepted request
\* reaches its outcome or the process is gone.
C14_TerminatesUnlessAborted ==
    \A s \in Slots : (~Free(s)) ~> (Done(s) \/ crashed)

\* C14, the outcome is one and final: an answered request has one of the
\* three statuses and its record changes no more (the goroutine's slot is
\* only taken again by a new request).
C14_OutcomeIsFinal ==
    [][\A s \in Slots :
         Done(s) =>
            /\ req[s].status \in {StatusTooManyRequests, StatusOK,
                                  StatusInternalServerError}
            /\ (req'[s] = req[s] \/ req'[s].pc = "lookup")]_vars

\* C15: an error of the GET does not end the request by itself.  Whatever
\* the error (the store did not answer, or it does not hold the key), the
\* request goes on to the provider when an API key is configured, and
\* otherwise ends for want of the key; a request whose GET erred and which
\* ends with 500 carries the error of a later step.
C15_ReadErrorFallsThrough ==
    [][\A s \in Slots :
         /\ (Steps(s, "get") /\ req'[s].getErr /= None) =>
               IF apiKey /= ""
               THEN req'[s].pc = "fetch" /\ req'[s].status = 0
               ELSE /\ req'[s].pc = "done"
                    /\ req'[s].body = ErrorBody("Api key could not found")
         /\ (Done(s) /\ req[s].getErr /= None
             /\ req[s].status = StatusInternalServerError) =>
               \/ apiKey = ""
               \/ req[s].fetches = 1 /\ req[s].upstream /= "json"
               \/ req[s].writes = 1]_vars

\* The store did not answer the GET of a key it held, and the request was
\* served from the provider.
C15_Witness ==
    \E s \in Slots :
        /\ Done(s) /\ req[s].getErr = "transport"
        /\ req[s].entryAtGet = "valid"
        /\ req[s].fetches = 1 /\ req[s].upstream = "json"
        /\ req[s].status = StatusOK /\ req[s].body = req[s].data

\* The tokens limiter lim holds at time t, stored and refilled, lie between
\* none and a full bucket.
TokensInRange(lim, t) ==
    /\ lim.last <= t
    /\ 0 <= lim.tokens /\ lim.tokens <= FullBucket
    /\ 0 <= Advance(lim, t) /\ Advance(lim, t) <= FullBucket

\* C16: in every state every limiter holds between 0 and Burst tokens,
\* counting the refill for the time elapsed; an allowed Allow() takes one
\* token from the refilled count and a denied Allow() leaves the limiter as
\* it was.
C16_TokensWithinBucket ==
    [][/\ \A i \in 1..Len(limiters) : TokensInRange(limiters[i], now)
       /\ \A i \in 1..Len(limiters') : TokensInRange(limiters'[i], now')
       /\ \A s \in Slots :
            Steps(s, "allow") =>
                LET l == req[s].limiter
                IN IF req'[s].allowed
                   THEN limiters'[l].tokens =
                            Advance(limiters[l], now) - OneToken
                   ELSE limiters'[l] = limiters[l]]_vars

\* A limiter was drained to no token, a request was denied on it, and time
\* has refilled it since.
C16_Witness ==
    \E s \in Slots :
        /\ Done(s) /\ req[s].status = StatusTooManyRequests
        /\ limiters[req[s].limiter].tokens = 0
        /\ limiters[req[s].limiter].last < now
        /\ Advance(limiters[req[s].limiter], now) > 0

\* C17: a hit for a key answers with the bytes that were the response of the
\* request whose SET wrote the key's current entry.
C17_HitReturnsFillResponse ==
    [][\A s \in Slots :
         LET k == CacheKey(req[s].country)
         IN (Steps(s, "get") /\ req'[s].getErr = None
             /\ hist.fillBody[k] /= <<>>)
            => req'[s].body = hist.fillBody[k]]_vars

\* C17, the round trip through the store: a hit answers with the bytes the
\* store holds, and when the writer of the entry answered with its payload
\* (its SET was acknowledged) these are the bytes the writer answered with.
C17_HitReturnsAcknowledgedFill ==
    [][\A s \in Slots :
         LET k == CacheKey(req[s].country)
         IN (Steps(s, "get") /\ req'[s].getErr = None) =>
               /\ req'[s].body = cache[k].val
               /\ (hist.fillBody[k] /= <<>>
                   /\ hist.fillBody[k][1] = "weather")
                  => req'[s].body = hist.fillBody[k]]_vars

\* C18: without an API key a request whose GET misses ends in that step
\* with 500, the store untouched, and no request ever fetches or writes;
\* a request whose GET hits answers 200 with the entry, with or without an
\* API key.
C18_NoKeyNoFetch ==
    [][\A s \in Slots :
         /\ (Steps(s, "get") /\ req'[s].getErr /= None /\ apiKey = "") =>
               /\ req'[s].pc = "done"
               /\ req'[s].status = StatusInternalServerError
               /\ req'[s].body = ErrorBody("Api key could not found")
               /\ cache' = cache
         /\ apiKey = "" =>
               /\ req'[s].pc \notin {"fetch", "set"}
               /\ req'[s].fetches = 0 /\ req'[s].writes = 0
         /\ (Steps(s, "get") /\ req'[s].getErr = None) =>
               /\ req'[s].pc = "done"
               /\ req'[s].status = StatusOK
               /\ req'[s].body = cache[CacheKey(req[s].country)].val]_vars

\* Without an API key, one request for a key was a hit and answered 200,
\* and another request for the same key missed and answered 500.
C18_Witness ==
    /\ apiKey = ""
    /\ \E s, t \in Slots :
          /\ Done(s) /\ Done(t) /\ req[s].country = req[t].country
          /\ req[s].getErr = None /\ req[s].status = StatusOK
          /\ req[s].body[1] = "weather"
          /\ req[t].getErr /= None /\ req[t].fetches = 0
          /\ req[t].writes = 0
          /\ req[t].status = StatusInternalServerError

\* The origin of the request in slot s does not parse.
Unparsed(s) == ~Free(s) /\ ~SplitHostPortOK(req[s].addr)

\* C19: every request whose origin does not parse carries the empty client
\* identifier and does nothing before Allow() admitted it; all of them draw
\* on one limiter, so with no time passing at most Burst of them are allowed
\* and one is denied only once Burst of them were allowed.
C19_UnparsedShareOneBucket ==
    /\ \A s \in Slots :
          (Unparsed(s) \/ (Done(s) /\ ~SplitHostPortOK(req[s].addr))) =>
              /\ req[s].ip = ""
              /\ (req[s].pc \in {"get", "fetch", "set"} \/ req[s].reads > 0)
                 => req[s].allowed
    /\ Cardinality(LimitersOf("")) <= 1
    /\ hist.burstAllowed[""] <= Burst
    /\ hist.burstDenied[""] => hist.burstAllowed[""] = Burst

\* C19, the part that holds: a request whose origin does not parse carries
\* the empty identifier, calls Allow() on a limiter made for the empty
\* identifier, and reaches the store only when admitted.
C19_UnparsedAreChecked ==
    \A s \in Slots :
        (Unparsed(s) \/ (Done(s) /\ ~SplitHostPortOK(req[s].addr))) =>
            /\ req[s].ip = ""
            /\ req[s].limiter /= 0 => hist.owner[req[s].limiter] = ""
            /\ req[s].allows = IF req[s].pc \in {"get", "fetch", "set", "done"}
                               THEN 1 ELSE 0
            /\ (req[s].pc \in {"get", "fetch", "set"} \/ req[s].reads > 0)
               => req[s].allowed

====
